---- MODULE Spec2Model ----
(***************************************************************************)
(* Model of git-wrapped25: the ContributionDashboard component             *)
(* (src/app/components/Contribution.tsx) and the aggregation helpers       *)
(* (src/app/utils/useGitAPI.ts).                                           *)
(*                                                                         *)
(* Spec        the component's event loop: avatar conversion effect,       *)
(*             the export handler and its rasterization                    *)
(* SpecRender  one render pass: stats, daily series, cumulative series     *)
(* SpecNorm    processContributionData                                     *)
(* SpecRank    processRepoLanguages                                        *)
(* SpecTop     fetchTopLanguages                                           *)
(***************************************************************************)
EXTENDS Integers, Sequences, FiniteSets

\* ------------------------------------------------------------------ bounds
MaxClicks == 3        \* clicks on the download button in one behaviour
MaxConversions == 3   \* runs of the avatar effect (mount + URL changes)
MaxUrl == 2           \* distinct avatar URLs 1..MaxUrl

\* ------------------------------------------------------------- variables
VARIABLES
  isDownloading,   \* useState(false), Contribution.tsx:53
  avatarDataUrl,   \* useState(""), Contribution.tsx:54
  avatarUrl,       \* prop userData.user.avatar_url
  buttonShown,     \* the rendered download button, Contribution.tsx:174
  convs,           \* runs of convertImageToDataUrl: [url, stage]
  rasterizing,     \* html2canvas calls in flight
  downloads,       \* link.click() calls
  errorsLogged,    \* console.error calls
  rethrown,        \* errors that escaped a handler
  clicks,          \* invocations of handleShareToPNG
  lastExit,        \* exit taken by the last handleShareToPNG step
  \* one render pass of ContributionDashboard
  contributions,          \* prop: Record<string, number>, in key order
  totalContributions,     \* prop
  stats,                  \* useMemo, Contribution.tsx:119
  processedContributions, \* useMemo, Contribution.tsx:110
  chartData,              \* data of the cumulative LineChart
  rendered,               \* the render pass has run
  \* processContributionData
  raw,                    \* its argument
  summary,                \* its return value
  normalized,             \* it has returned
  \* processRepoLanguages
  repositories,           \* its argument
  ranking,                \* its return value
  ranked,                 \* it has returned
  \* fetchTopLanguages
  responseOk,             \* response.ok
  repos,                  \* response.json()
  topResult,              \* its resolved value
  topState                \* "pending", "resolved" or "rejected"

exportVars == <<isDownloading, avatarDataUrl, avatarUrl, buttonShown, convs,
                rasterizing, downloads, errorsLogged, rethrown, clicks,
                lastExit>>
renderVars == <<contributions, totalContributions, stats,
                processedContributions, chartData, rendered>>
normVars == <<raw, summary, normalized>>
rankVars == <<repositories, ranking, ranked>>
topVars == <<responseOk, repos, topResult, topState>>
pureVars == <<renderVars, normVars, rankVars, topVars>>
vars == <<exportVars, renderVars, normVars, rankVars, topVars>>

\* values of the avatarDataUrl state: "" (initial), null (reader.result of a
\* failed read), or the data URL of avatar URL u
EmptyDataUrl == 0
NullDataUrl == -1
DataUrlOf(u) == u

\* {!isDownloading && (<button .../>)}
ButtonShownAlways(flag) == TRUE
ButtonShown(flag) == ~flag

\* the catch block of handleShareToPNG: console.error, no re-throw
ExportCatchRethrows == [logged |-> 1, rethrown |-> 1]
ExportCatch == [logged |-> 1, rethrown |-> 0]

\* the catch block of convertImageToDataUrl: console.error, no re-throw
ConvertCatch == [logged |-> 1, rethrown |-> 0]

\* outcomes of `await html2canvas(...)` followed by canvas.toDataURL(...)
RasterOutcomes == {"ok", "raster_error", "encode_error"}

\* the effect body: convertImageToDataUrl() starts with fetch(avatar_url)
StartConversion(u) == [url |-> u, stage |-> "fetch"]

PendingConversions == {i \in 1..Len(convs) : convs[i].stage \in {"fetch", "read"}}

ExportInit ==
  /\ isDownloading = FALSE
  /\ avatarDataUrl = EmptyDataUrl
  /\ avatarUrl = 1
  /\ buttonShown = ButtonShown(FALSE)
  /\ convs = <<StartConversion(1)>>      \* the effect runs on mount
  /\ rasterizing = 0
  /\ downloads = 0
  /\ errorsLogged = 0
  /\ rethrown = 0
  /\ clicks = 0
  /\ lastExit = "none"

\* handleShareToPNG up to its first await: the click on the rendered button
\* with the two element lookups as inputs
HandleShareToPNGWith(dashboardElement, shareElement) ==
  /\ buttonShown
  /\ clicks < MaxClicks
  /\ clicks' = clicks + 1
  /\ isDownloading' = TRUE
  /\ buttonShown' = ButtonShown(isDownloading')
  /\ IF ~dashboardElement \/ ~shareElement
       THEN /\ lastExit' = "missing"
            /\ rasterizing' = rasterizing
       ELSE /\ lastExit' = "started"
            /\ rasterizing' = rasterizing + 1
  /\ UNCHANGED <<avatarDataUrl, avatarUrl, convs, downloads, errorsLogged,
                 rethrown>>
  /\ UNCHANGED pureVars

HandleShareToPNG ==
  \E dashboardElement \in BOOLEAN, shareElement \in BOOLEAN :
    HandleShareToPNGWith(dashboardElement, shareElement)

\* the rest of handleShareToPNG: the awaited html2canvas settles, then the
\* download link, the catch block and the finally block
RasterizeSettleWith(outcome) ==
  /\ rasterizing > 0
  /\ rasterizing' = rasterizing - 1
  /\ IF outcome = "ok"
       THEN /\ downloads' = downloads + 1
            /\ lastExit' = "success"
            /\ UNCHANGED <<errorsLogged, rethrown>>
       ELSE /\ downloads' = downloads
            /\ lastExit' = "failure"
            /\ errorsLogged' = errorsLogged + ExportCatch.logged
            /\ rethrown' = rethrown + ExportCatch.rethrown
  /\ isDownloading' = FALSE
  /\ buttonShown' = ButtonShown(isDownloading')
  /\ UNCHANGED <<avatarDataUrl, avatarUrl, convs, clicks>>
  /\ UNCHANGED pureVars

RasterizeSettle == \E outcome \in RasterOutcomes : RasterizeSettleWith(outcome)

\* the avatar_url dependency of the effect changes: the effect runs again
AvatarUrlChange ==
  \E u \in 1..MaxUrl :
    /\ u # avatarUrl
    /\ Len(convs) < MaxConversions
    /\ avatarUrl' = u
    /\ convs' = Append(convs, StartConversion(u))
    /\ UNCHANGED <<isDownloading, avatarDataUrl, buttonShown, rasterizing,
                   downloads, errorsLogged, rethrown, clicks, lastExit>>
    /\ UNCHANGED pureVars

\* `await fetch(...)` / `await response.blob()` settle for run i
ConvertFetchSettle ==
  \E i \in 1..Len(convs), ok \in BOOLEAN :
    /\ convs[i].stage = "fetch"
    /\ IF ok
         THEN /\ convs' = [convs EXCEPT ![i].stage = "read"]
              /\ UNCHANGED <<errorsLogged, rethrown>>
         ELSE /\ convs' = [convs EXCEPT ![i].stage = "failed"]
              /\ errorsLogged' = errorsLogged + ConvertCatch.logged
              /\ rethrown' = rethrown + ConvertCatch.rethrown
    /\ UNCHANGED <<isDownloading, avatarDataUrl, avatarUrl, buttonShown,
                   rasterizing, downloads, clicks, lastExit>>
    /\ UNCHANGED pureVars

\* reader.onloadend for run i: setAvatarDataUrl(reader.result)
ReaderLoadEnd ==
  \E i \in 1..Len(convs), ok \in BOOLEAN :
    /\ convs[i].stage = "read"
    /\ convs' = [convs EXCEPT ![i].stage = "done"]
    /\ avatarDataUrl' = IF ok THEN DataUrlOf(convs[i].url) ELSE NullDataUrl
    /\ UNCHANGED <<isDownloading, avatarUrl, buttonShown, rasterizing,
                   downloads, errorsLogged, rethrown, clicks, lastExit>>
    /\ UNCHANGED pureVars

ExportNext ==
  \/ HandleShareToPNG
  \/ RasterizeSettle
  \/ AvatarUrlChange
  \/ ConvertFetchSettle
  \/ ReaderLoadEnd


\* ------------------------------------------------------ one render pass
MaxDays == 3          \* entries of the contribution map, dates 1..MaxDays
MaxCount == 3         \* contributions of one day, 0..MaxCount
MaxTotal == 4         \* the upstream total, 0..MaxTotal

SeqsUpTo(S, n) == UNION {[1..k -> S] : k \in 0..n}

DistinctDates(entries) ==
  \A i, j \in 1..Len(entries) : entries[i].date = entries[j].date => i = j

\* JavaScript numbers the statistics can take; finite ones in tenths
Fin(t) == [tag |-> "finite", tenths |-> t]
NaN == [tag |-> "NaN", tenths |-> 0]
PosInf == [tag |-> "Infinity", tenths |-> 0]
NegInf == [tag |-> "-Infinity", tenths |-> 0]

\* a / b for integers a >= 0, b >= 0: the exact quotient, or NaN / Infinity
JsDivide(a, b) ==
  IF b = 0
    THEN (IF a = 0 THEN [tag |-> "NaN", num |-> 0, den |-> 1]
                   ELSE [tag |-> "Infinity", num |-> 0, den |-> 1])
    ELSE [tag |-> "finite", num |-> a, den |-> b]

\* Number.prototype.toFixed(1): the decimal string of the nearest tenth, the
\* larger one of two equally near; "NaN" and "Infinity" for those values.
\* A quotient exactly between two tenths has the reduced denominator 4 or 20;
\* with den <= 5 it is 4, and a multiple of 1/4 is an exact double.
ToFixed1Truncating(q) ==
  IF q.tag # "finite"
    THEN [text |-> q.tag, int |-> 0, frac |-> 0]
    ELSE LET n == (10 * q.num) \div q.den
         IN [text |-> "digits", int |-> n \div 10, frac |-> n % 10]
ToFixed1(q) ==
  IF q.tag # "finite"
    THEN [text |-> q.tag, int |-> 0, frac |-> 0]
    ELSE LET n == (20 * q.num + q.den) \div (2 * q.den)
         IN [text |-> "digits", int |-> n \div 10, frac |-> n % 10]

\* Number(string)
JsNumber(str) ==
  IF str.text = "digits" THEN Fin(10 * str.int + str.frac)
  ELSE IF str.text = "Infinity" THEN PosInf
  ELSE NaN

\* Object.values(contributions)
ObjectValues(entries) == [i \in 1..Len(entries) |-> entries[i].contributions]

\* contributionValues.filter((c) => c > 0).length
CountPositive(values) == Cardinality({i \in 1..Len(values) : values[i] > 0})

\* Math.max(...values): -Infinity without arguments
MathMax(values) ==
  IF Len(values) = 0 THEN NegInf
  ELSE Fin(10 * (CHOOSE m \in {values[i] : i \in 1..Len(values)} :
                   \A i \in 1..Len(values) : values[i] <= m))

\* the stats memo
ComputeStats(entries, total) ==
  LET contributionValues == ObjectValues(entries)
  IN [totalContributions |-> total,
      averageDaily |-> JsNumber(ToFixed1(JsDivide(total, Len(contributionValues)))),
      daysWithContributions |-> CountPositive(contributionValues),
      maxDaily |-> MathMax(contributionValues)]

\* new Date(date).getTime() of the ISO date with day ordinal d
DateGetTime(d) == d * 86400000

\* Array.prototype.sort with (a, b) => getTime(a.date) - getTime(b.date):
\* a stable sort, here by insertion
InsertByDate(sorted, x) ==
  LET p == Cardinality({i \in 1..Len(sorted) :
                 DateGetTime(sorted[i].date) - DateGetTime(x.date) <= 0})
  IN SubSeq(sorted, 1, p) \o <<x>> \o SubSeq(sorted, p + 1, Len(sorted))

RECURSIVE SortByDate(_)
SortByDate(s) ==
  IF s = <<>> THEN <<>>
  ELSE InsertByDate(SortByDate(SubSeq(s, 1, Len(s) - 1)), s[Len(s)])

\* the processedContributions memo: Object.entries(...).map(...).sort(...)
ProcessContributions(entries) ==
  SortByDate([i \in 1..Len(entries) |->
                [date |-> entries[i].date,
                 contributions |-> entries[i].contributions]])

\* Array.prototype.slice(0, end) with a 0-based exclusive end
SliceShort(s, end) == SubSeq(s, 1, end - 1)
Slice(s, end) == SubSeq(s, 1, end)

\* .reduce((sum, curr) => sum + curr.contributions, 0)
RECURSIVE ReduceSum(_)
ReduceSum(s) ==
  IF s = <<>> THEN 0
  ELSE ReduceSum(SubSeq(s, 1, Len(s) - 1)) + s[Len(s)].contributions

\* the data of the cumulative LineChart; index is 0-based in the source
CumulativeData(processed) ==
  [k \in 1..Len(processed) |->
     LET index == k - 1
     IN [date |-> processed[k].date,
         contributions |-> processed[k].contributions,
         cumulative |-> ReduceSum(Slice(processed, index + 1))]]

NoStats == [totalContributions |-> 0, averageDaily |-> Fin(0),
            daysWithContributions |-> 0, maxDaily |-> Fin(0)]

ContributionEntries == [date : 1..MaxDays, contributions : 0..MaxCount]

RenderIdle ==
  /\ contributions = <<>>
  /\ totalContributions = 0
  /\ stats = NoStats
  /\ processedContributions = <<>>
  /\ chartData = <<>>
  /\ rendered = FALSE

RenderInit ==
  /\ contributions \in {m \in SeqsUpTo(ContributionEntries, MaxDays) :
                          DistinctDates(m)}
  /\ totalContributions \in 0..MaxTotal
  /\ stats = NoStats
  /\ processedContributions = <<>>
  /\ chartData = <<>>
  /\ rendered = FALSE

\* the body of ContributionDashboard up to the returned elements
Render ==
  /\ ~rendered
  /\ rendered' = TRUE
  /\ processedContributions' = ProcessContributions(contributions)
  /\ stats' = ComputeStats(contributions, totalContributions)
  /\ chartData' = CumulativeData(processedContributions')
  /\ UNCHANGED <<contributions, totalContributions>>
  /\ UNCHANGED <<exportVars, normVars, rankVars, topVars>>

\* ------------------------------------------- Record<string, number> helpers
\* A Record is modelled as the sequence of its entries in property order,
\* which for keys that are not array indices is the order of first assignment.
HasKey(map, key) == \E i \in 1..Len(map) : map[i][1] = key

ValueOf(map, key) == map[CHOOSE i \in 1..Len(map) : map[i][1] = key][2]

\* map[key] = value
Assign(map, key, value) ==
  IF HasKey(map, key)
    THEN [i \in 1..Len(map) |-> IF map[i][1] = key THEN <<key, value>> ELSE map[i]]
    ELSE Append(map, <<key, value>>)

\* Array.prototype.sort with (a, b) => b[1] - a[1] on [key, value] pairs:
\* a stable sort, here by insertion
InsertDescUnstable(sorted, x) ==
  LET p == Cardinality({i \in 1..Len(sorted) : x[2] - sorted[i][2] < 0})
  IN SubSeq(sorted, 1, p) \o <<x>> \o SubSeq(sorted, p + 1, Len(sorted))
InsertDesc(sorted, x) ==
  LET p == Cardinality({i \in 1..Len(sorted) : x[2] - sorted[i][2] <= 0})
  IN SubSeq(sorted, 1, p) \o <<x>> \o SubSeq(sorted, p + 1, Len(sorted))

RECURSIVE SortDescByValue(_)
SortDescByValue(s) ==
  IF s = <<>> THEN <<>>
  ELSE InsertDesc(SortDescByValue(SubSeq(s, 1, Len(s) - 1)), s[Len(s)])

\* ----------------------------------------------- processContributionData
MaxWeeks == 2         \* weeks of a raw response
MaxWeekDays == 2      \* contributionDays of one week

NormCounts == {0, 2}
NormTotals == {0, 3}

RawDays == [date : 1..MaxDays, contributionCount : NormCounts]
RawWeeks == [contributionDays : SeqsUpTo(RawDays, MaxWeekDays)]
RawResponses == [totalContributions : NormTotals,
                 weeks : SeqsUpTo(RawWeeks, MaxWeeks)]

\* week.contributionDays.forEach((day) => { contributionMap[day.date] = ... })
RECURSIVE AssignDays(_, _)
AssignDays(map, days) ==
  IF days = <<>> THEN map
  ELSE LET day == days[Len(days)]
       IN Assign(AssignDays(map, SubSeq(days, 1, Len(days) - 1)),
                 day.date, day.contributionCount)

\* data.weeks.forEach((week) => ...)
RECURSIVE AssignWeeks(_, _)
AssignWeeks(map, weeks) ==
  IF weeks = <<>> THEN map
  ELSE AssignDays(AssignWeeks(map, SubSeq(weeks, 1, Len(weeks) - 1)),
                  weeks[Len(weeks)].contributionDays)

RECURSIVE SumValues(_)
SumValues(map) ==
  IF map = <<>> THEN 0
  ELSE SumValues(SubSeq(map, 1, Len(map) - 1)) + map[Len(map)][2]

ProcessContributionDataSummed(data) ==
  LET contributionMap == AssignWeeks(<<>>, data.weeks)
  IN [totalContributions |-> SumValues(contributionMap),
      contributionMap |-> contributionMap]
ProcessContributionData(data) ==
  [totalContributions |-> data.totalContributions,
   contributionMap |-> AssignWeeks(<<>>, data.weeks)]

NoRaw == [totalContributions |-> 0, weeks |-> <<>>]
NoSummary == [totalContributions |-> 0, contributionMap |-> <<>>]

NormIdle ==
  /\ raw = NoRaw
  /\ summary = NoSummary
  /\ normalized = FALSE

NormInit ==
  /\ raw \in RawResponses
  /\ summary = NoSummary
  /\ normalized = FALSE

Normalize ==
  /\ ~normalized
  /\ normalized' = TRUE
  /\ summary' = ProcessContributionData(raw)
  /\ raw' = raw
  /\ UNCHANGED <<exportVars, renderVars, rankVars, topVars>>

\* -------------------------------------------------- processRepoLanguages
MaxRepos == 2         \* repositories of one listing
MaxEdges == 2         \* language edges of one repository

LanguageNames == {"C", "Go", "Rust"}
EdgeSizes == {1, 2}

LanguageEdges == [size : EdgeSizes, node : [name : LanguageNames]]
Repositories == [languages : [edges : SeqsUpTo(LanguageEdges, MaxEdges)]]

\* repo.languages.edges.map((lang) => ({name: lang.node.name, size: lang.size}))
RepoLanguagesOf(repo) ==
  [i \in 1..Len(repo.languages.edges) |->
     [name |-> repo.languages.edges[i].node.name,
      size |-> repo.languages.edges[i].size]]

\* languages.forEach((lang) => { languageMap[lang.name] = (... || 0) + lang.size })
RECURSIVE AccumulateLanguages(_, _)
AccumulateLanguages(map, languages) ==
  IF languages = <<>> THEN map
  ELSE LET before == AccumulateLanguages(map, SubSeq(languages, 1, Len(languages) - 1))
           lang == languages[Len(languages)]
           old == IF HasKey(before, lang.name) THEN ValueOf(before, lang.name) ELSE 0
       IN Assign(before, lang.name, old + lang.size)

\* repositories.forEach((repo) => ...): the languageMap after all repositories
RECURSIVE LanguageMapOf(_)
LanguageMapOf(repositoryList) ==
  IF repositoryList = <<>> THEN <<>>
  ELSE AccumulateLanguages(
         LanguageMapOf(SubSeq(repositoryList, 1, Len(repositoryList) - 1)),
         RepoLanguagesOf(repositoryList[Len(repositoryList)]))

\* repoDetails.push({name, stars, languages: languages.map((l) => l.name)});
\* name and stars are copied from the repository and are not modelled
RepoDetailsOf(repositoryList) ==
  [r \in 1..Len(repositoryList) |->
     [languages |-> [i \in 1..Len(repositoryList[r].languages.edges) |->
                       RepoLanguagesOf(repositoryList[r])[i].name]]]

ProcessRepoLanguages(repositoryList) ==
  LET sortedPairs == SortDescByValue(LanguageMapOf(repositoryList))
  IN [topLanguages |-> [i \in 1..Len(sortedPairs) |->
                          [name |-> sortedPairs[i][1], size |-> sortedPairs[i][2]]],
      repoDetails |-> RepoDetailsOf(repositoryList)]

NoRanking == [topLanguages |-> <<>>, repoDetails |-> <<>>]

RankIdle ==
  /\ repositories = <<>>
  /\ ranking = NoRanking
  /\ ranked = FALSE

RankInit ==
  /\ repositories \in SeqsUpTo(Repositories, MaxRepos)
  /\ ranking = NoRanking
  /\ ranked = FALSE

RankLanguages ==
  /\ ~ranked
  /\ ranked' = TRUE
  /\ ranking' = ProcessRepoLanguages(repositories)
  /\ repositories' = repositories
  /\ UNCHANGED <<exportVars, renderVars, normVars, topVars>>

\* ----------------------------------------------------- fetchTopLanguages
MaxRepoList == 8      \* repositories of one REST listing
MaxLanguages == 6     \* distinct primary languages of one listing

TopN == 5

\* repo.language: 0 is null, n > 0 the n-th language in order of first
\* appearance in the listing (names are opaque to the code)
NullLanguage == 0

LanguagesUsed(list) == {list[i].language : i \in 1..Len(list)} \ {NullLanguage}

NextLanguageChoices(list) ==
  LET used == Cardinality(LanguagesUsed(list))
  IN 0..(IF used < MaxLanguages THEN used + 1 ELSE used)

\* repos.forEach((repo) => { if (repo.language) languageCount[...] = ... + 1 })
RECURSIVE CountLanguages(_)
CountLanguages(list) ==
  IF list = <<>> THEN <<>>
  ELSE LET before == CountLanguages(SubSeq(list, 1, Len(list) - 1))
           language == list[Len(list)].language
           old == IF HasKey(before, language) THEN ValueOf(before, language) ELSE 0
       IN IF language # NullLanguage
            THEN Assign(before, language, old + 1)
            ELSE before

\* Array.prototype.slice(0, n)
TakeFirst(s, n) == SubSeq(s, 1, IF Len(s) < n THEN Len(s) ELSE n)

\* Object.entries(languageCount).sort(...).slice(0, 5)
TopLanguagesSliceFirst(list) == SortDescByValue(TakeFirst(CountLanguages(list), TopN))
TopLanguagesOf(list) == TakeFirst(SortDescByValue(CountLanguages(list)), TopN)

TopIdle ==
  /\ responseOk = TRUE
  /\ repos = <<>>
  /\ topResult = <<>>
  /\ topState = "idle"

TopInit ==
  /\ responseOk \in BOOLEAN
  /\ repos = <<>>
  /\ topResult = <<>>
  /\ topState = "pending"

\* the listing of an OK response grows by one repository; the body of a
\* response that is not OK is never read
ReceiveRepo ==
  /\ topState = "pending"
  /\ responseOk
  /\ Len(repos) < MaxRepoList
  /\ \E l \in NextLanguageChoices(repos) :
       repos' = Append(repos, [language |-> l])
  /\ UNCHANGED <<responseOk, topResult, topState>>
  /\ UNCHANGED <<exportVars, renderVars, normVars, rankVars>>

\* fetchTopLanguages after the response arrived
FetchTopLanguages ==
  /\ topState = "pending"
  /\ IF ~responseOk
       THEN /\ topState' = "rejected"      \* throw new Error(...)
            /\ topResult' = <<>>
       ELSE /\ topState' = "resolved"
            /\ topResult' = TopLanguagesOf(repos)
  /\ UNCHANGED <<responseOk, repos>>
  /\ UNCHANGED <<exportVars, renderVars, normVars, rankVars>>

\* --------------------------------------------------------- specifications
Init == ExportInit /\ RenderIdle /\ NormIdle /\ RankIdle /\ TopIdle
Next == ExportNext
Spec == Init /\ [][Next]_vars

InitRender == RenderInit /\ ExportInit /\ NormIdle /\ RankIdle /\ TopIdle
NextRender == Render
SpecRender == InitRender /\ [][NextRender]_vars

InitNorm == NormInit /\ ExportInit /\ RenderIdle /\ RankIdle /\ TopIdle
NextNorm == Normalize
SpecNorm == InitNorm /\ [][NextNorm]_vars

InitRank == RankInit /\ ExportInit /\ RenderIdle /\ NormIdle /\ TopIdle
NextRank == RankLanguages
SpecRank == InitRank /\ [][NextRank]_vars

InitTop == TopInit /\ ExportInit /\ RenderIdle /\ NormIdle /\ RankIdle
NextTop == ReceiveRepo \/ FetchTopLanguages
SpecTop == InitTop /\ [][NextTop]_vars

\* ------------------------------------------------------------ export flow

\* C1: every invocation of handleShareToPNG that set isDownloading resets it
\* on each exit: once every invocation has returned, the flag is false.
C1_FlagResetOnEveryExit ==
  (clicks > 0 /\ rasterizing = 0) => isDownloading = FALSE

\* C2: at most one html2canvas call is in flight at any time, and while one
\* is in flight the flag is set and the download button is not rendered.
C2_AtMostOneRasterization ==
  /\ rasterizing <= 1
  /\ rasterizing = 1 => (isDownloading /\ ~buttonShown)

C2_Witness == clicks >= 2 /\ rasterizing = 1 /\ downloads >= 1

\* C3: html2canvas is never called while an avatar conversion is pending, and
\* a download is triggered only by a rasterization that completed.
C3_ConversionBeforeRasterization ==
  [][/\ rasterizing' > rasterizing => PendingConversions = {}
     /\ downloads' > downloads => rasterizing' < rasterizing]_vars

\* C9: a failing step of the export flow (avatar fetch, rasterization) is
\* logged once and not re-thrown, triggers no download, and leaves the flag
\* false and the button rendered (rasterization) or untouched (conversion).
RasterizationFails == rasterizing' < rasterizing /\ lastExit' = "failure"

ConversionFails ==
  \E i \in 1..Len(convs) : convs[i].stage = "fetch" /\ convs'[i].stage = "failed"

C11_CacheKeyedByCurrentUrl ==
  (/\ Len(convs) > 1
   /\ PendingConversions = {}
   /\ avatarDataUrl # EmptyDataUrl
   /\ avatarDataUrl # NullDataUrl) => avatarDataUrl = DataUrlOf(avatarUrl)

\* ------------------------------------------------------------ render pass

\* C4: on an empty contribution map the statistics are averageDaily = 0,
\* daysWithContributions = 0 and maxDaily = 0.
C4_EmptyMapStats ==
  (rendered /\ contributions = <<>>) =>
     /\ stats.averageDaily = Fin(0)
     /\ stats.daysWithContributions = 0
     /\ stats.maxDaily = Fin(0)

\* the single running sum the cumulative series is compared with
RECURSIVE RunningSum(_)
RunningSum(s) ==
  IF s = <<>> THEN <<>>
  ELSE LET before == RunningSum(SubSeq(s, 1, Len(s) - 1))
           carried == IF before = <<>> THEN 0 ELSE before[Len(before)]
       IN Append(before, carried + s[Len(s)].contributions)

\* C8: the daily series holds the map's entries in ascending date order; the
\* cumulative series has its length and order, and its i-th cumulative value
\* is the running sum of the contributions up to and including i.
C8_CumulativeSeries ==
  rendered =>
    /\ Len(processedContributions) = Len(contributions)
    /\ {processedContributions[i] : i \in 1..Len(processedContributions)}
         = {contributions[i] : i \in 1..Len(contributions)}
    /\ \A i, j \in 1..Len(processedContributions) :
         i < j => processedContributions[i].date < processedContributions[j].date
    /\ Len(chartData) = Len(processedContributions)
    /\ \A i \in 1..Len(chartData) :
         /\ chartData[i].date = processedContributions[i].date
         /\ chartData[i].contributions = processedContributions[i].contributions
         /\ chartData[i].cumulative = RunningSum(processedContributions)[i]

C8_Witness ==
  /\ rendered
  /\ contributions # processedContributions
  /\ [i \in 1..Len(chartData) |-> chartData[i].contributions] = <<2, 3, 0>>
  /\ [i \in 1..Len(chartData) |-> chartData[i].cumulative] = <<2, 5, 5>>

\* C10: on a non-empty map, totalContributions is the upstream total,
\* averageDaily the tenth nearest to total / entries, daysWithContributions
\* the number of entries above 0 and maxDaily the largest value.
C10_Stats ==
  (rendered /\ Len(contributions) > 0) =>
    LET n == Len(contributions)
        t == stats.averageDaily.tenths
        d == t * n - 10 * totalContributions
    IN /\ stats.totalContributions = totalContributions
       /\ stats.averageDaily.tag = "finite"
       /\ 2 * (IF d < 0 THEN -d ELSE d) <= n
       /\ stats.daysWithContributions
            = Cardinality({i \in 1..n : contributions[i].contributions > 0})
       /\ stats.maxDaily.tag = "finite"
       /\ \E i \in 1..n : stats.maxDaily.tenths = 10 * contributions[i].contributions
       /\ \A i \in 1..n : 10 * contributions[i].contributions <= stats.maxDaily.tenths

C10_Witness ==
  /\ rendered
  /\ Len(contributions) = 3
  /\ totalContributions = 2
  /\ stats.averageDaily = Fin(7)
  /\ stats.daysWithContributions = 2
  /\ stats.maxDaily = Fin(30)

\* ------------------------------------------------------- aggregation layer

\* positions <<week, day>> of the contributionDays of a raw response
DayPositions(data) ==
  UNION {{<<w, d>> : d \in 1..Len(data.weeks[w].contributionDays)} :
           w \in 1..Len(data.weeks)}

DayAt(data, pos) == data.weeks[pos[1]].contributionDays[pos[2]]

\* a well-formed response has one contributionDay per date
WellFormedRaw(data) ==
  \A p, q \in DayPositions(data) :
    DayAt(data, p).date = DayAt(data, q).date => p = q

\* C5: on a well-formed response the map has as many keys as there are
\* contributionDays over all weeks, each date mapped to its
\* contributionCount, and totalContributions is the raw total.
C5_NormalizeContributions ==
  (normalized /\ WellFormedRaw(raw)) =>
    /\ Len(summary.contributionMap) = Cardinality(DayPositions(raw))
    /\ \A p \in DayPositions(raw) :
         /\ HasKey(summary.contributionMap, DayAt(raw, p).date)
         /\ ValueOf(summary.contributionMap, DayAt(raw, p).date)
              = DayAt(raw, p).contributionCount
    /\ \A i, j \in 1..Len(summary.contributionMap) :
         summary.contributionMap[i][1] = summary.contributionMap[j][1] => i = j
    /\ summary.totalContributions = raw.totalContributions

C5_Witness ==
  /\ normalized
  /\ WellFormedRaw(raw)
  /\ Len(raw.weeks) = 2
  /\ Len(raw.weeks[1].contributionDays) = 2
  /\ Len(raw.weeks[2].contributionDays) = 1
  /\ Len(summary.contributionMap) = 3
  /\ summary.totalContributions = 3
  /\ SumValues(summary.contributionMap) = 4

\* the language edges of a listing in the order the code visits them
RECURSIVE AllEdges(_)
AllEdges(repositoryList) ==
  IF repositoryList = <<>> THEN <<>>
  ELSE AllEdges(SubSeq(repositoryList, 1, Len(repositoryList) - 1))
         \o repositoryList[Len(repositoryList)].languages.edges

RECURSIVE SizeOfLanguage(_, _)
SizeOfLanguage(edges, name) ==
  IF edges = <<>> THEN 0
  ELSE SizeOfLanguage(SubSeq(edges, 1, Len(edges) - 1), name)
         + (IF edges[Len(edges)].node.name = name THEN edges[Len(edges)].size ELSE 0)

FirstEncounter(edges, name) ==
  CHOOSE i \in 1..Len(edges) :
    /\ edges[i].node.name = name
    /\ \A j \in 1..(i - 1) : edges[j].node.name # name

\* C6: topLanguages holds each language once, with the sum of its edge sizes
\* over all repositories, in descending order of size, languages of equal
\* size in the order of their first encounter.
C6_RankLanguages ==
  ranked =>
    LET top == ranking.topLanguages
        edges == AllEdges(repositories)
    IN /\ {top[i].name : i \in 1..Len(top)}
            = {edges[k].node.name : k \in 1..Len(edges)}
       /\ \A i, j \in 1..Len(top) : top[i].name = top[j].name => i = j
       /\ \A i \in 1..Len(top) : top[i].size = SizeOfLanguage(edges, top[i].name)
       /\ \A i, j \in 1..Len(top) : i < j => top[i].size >= top[j].size
       /\ \A i, j \in 1..Len(top) :
            (i < j /\ top[i].size = top[j].size) =>
              FirstEncounter(edges, top[i].name) < FirstEncounter(edges, top[j].name)

C6_Witness ==
  /\ ranked
  /\ Len(repositories) = 2
  /\ Len(ranking.topLanguages) = 3
  /\ ranking.topLanguages[1].size = 3
  /\ ranking.topLanguages[2].size = 2
  /\ ranking.topLanguages[3].size = 2
  /\ Len(AllEdges(repositories)) = 4

ReposWithLanguage(list, language) ==
  Cardinality({k \in 1..Len(list) : list[k].language = language})

\* C7: on an OK response the result pairs each language with the number of
\* repositories that have it as primary language, has no pair for null, is
\* in descending order of count, and holds the min(5, languages) highest
\* counts.
C7_TopLanguages ==
  topState = "resolved" =>
    LET used == LanguagesUsed(repos)
        inResult == {topResult[i][1] : i \in 1..Len(topResult)}
    IN /\ inResult \subseteq used
       /\ \A i, j \in 1..Len(topResult) :
            topResult[i][1] = topResult[j][1] => i = j
       /\ \A i \in 1..Len(topResult) :
            topResult[i][2] = ReposWithLanguage(repos, topResult[i][1])
       /\ \A i, j \in 1..Len(topResult) : i < j => topResult[i][2] >= topResult[j][2]
       /\ Len(topResult) = (IF Cardinality(used) < TopN THEN Cardinality(used) ELSE TopN)
       /\ \A l \in used \ inResult : \A i \in 1..Len(topResult) :
            ReposWithLanguage(repos, l) <= topResult[i][2]

C7_Witness ==
  /\ topState = "resolved"
  /\ Cardinality(LanguagesUsed(repos)) = 6
  /\ \E k \in 1..Len(repos) : repos[k].language = NullLanguage
  /\ Len(topResult) = 5
  /\ topResult[1] = <<6, 2>>
====
